---------------------------- MODULE Spec2Model ----------------------------
(***************************************************************************)
(* Session lifecycle of api-nebula: AuthService (app/services/auth_service) *)
(* over the Redis cache (app/core/redis_client) and the user_sessions      *)
(* table (app/crud/session).                                               *)
(*                                                                         *)
(* Every cache or database round trip of a handler is one step of the      *)
(* process that runs it, so that two service instances interleave exactly  *)
(* at the points where the code gives up atomicity.  The local computation *)
(* that precedes a round trip belongs to the step of that round trip.      *)
(* Time is a clock in seconds that advances, between operations, by one    *)
(* of the program's own periods or by half the access-token lifetime.      *)
(* The metric counters (redis increment)                                   *)
(* and the columns no handler ever reads back (device_info, ip_address,    *)
(* user_agent, expires_at, revoked_at) are left out.                       *)
(***************************************************************************)
EXTENDS Integers, Sequences, FiniteSets, TLC

(* ------------------------------ bounds -------------------------------- *)
MaxSessions == 3
MaxJti == 6
MaxTicks == 2
MaxOps == 3
MaxSeqOps == 4
MaxAdverseOps == 3
MaxUsers == 2

(* ------------------------- program constants -------------------------- *)
ACCESS_TOKEN_EXPIRE_MINUTES == 30
REFRESH_TOKEN_EXPIRE_DAYS == 7
INACTIVITY_TIMEOUT_SECONDS == 3600
retention_hours == 6

AccessTTL == ACCESS_TOKEN_EXPIRE_MINUTES * 60
RefreshTTL == REFRESH_TOKEN_EXPIRE_DAYS * 24 * 60 * 60
RetentionSeconds == retention_hours * 3600

Procs == {1, 2}
Users == {1, 2}
Sids == 1 .. MaxSessions
Jtis == 1 .. MaxJti
Reasons == {"", "user_logout"}
TickSteps == {AccessTTL \div 2, AccessTTL, RetentionSeconds}
Names == {"alice", "Alice ", "bob"}
Passwords == {"pw1", "pw2"}

VARIABLES
    now,            \* datetime.utcnow(), seconds
    ticks,          \* how often the clock has advanced
    rows,           \* user_sessions: session_id -> row
    session_cache,  \* redis "session:<id>"       -> [value, exp]
    user_activity,  \* redis "user_activity:<id>" -> [value, exp]
    blacklist,      \* redis "blacklist:<jti>"    -> [value, exp]
    tokens,         \* the tokens handed out to callers: jti -> claims
    next_session,   \* the next fresh session id
    next_jti,       \* the next fresh jti
    users,          \* users: id -> row (a sequence, ids in insertion order)
    budget,         \* how many more operations the callers will start
    pc,             \* where each service instance stands in its handler
    local           \* the handler's local variables, its result, and history

vars == <<now, ticks, rows, session_cache, user_activity, blacklist, tokens,
          next_session, next_jti, users, budget, pc, local>>

(* ------------------------------ helpers ------------------------------- *)
InFlight(p) == pc[p] \notin {"idle", "done"}

Done(p, op) == pc[p] = "done" /\ local[p].op = op

Solo(p) == \A q \in Procs \ {p} : ~InFlight(q)

Put(store, key, value, ttl) ==
    [k \in DOMAIN store \cup {key} |->
        IF k = key THEN [value |-> value, exp |-> now + ttl] ELSE store[k]]

Del(store, key) == [k \in DOMAIN store \ {key} |-> store[k]]

Live(store, t) == [k \in {x \in DOMAIN store : store[x].exp > t} |-> store[k]]

(* --------------------------- Credential Codec ------------------------- *)
\* The claims of a token whose type tag is always refresh.
Claims_AlwaysRefresh(user_id, session_id, type, ttl, parent) ==
    [user_id |-> user_id, session_id |-> session_id, type |-> "refresh",
     exp |-> now + ttl, parent |-> parent, replayed |-> FALSE]

\* create_access_token / create_refresh_token: the claims of a token.
\* parent and replayed are history only: the refresh jti whose exchange issued
\* the token, and whether the token was presented again after its own
\* exchange and refused as revoked.
Claims(user_id, session_id, type, ttl, parent) ==
    [user_id |-> user_id, session_id |-> session_id, type |-> type,
     exp |-> now + ttl, parent |-> parent, replayed |-> FALSE]

\* jwt.decode raises ExpiredSignatureError once exp has passed.
Expired(j) == tokens[j].exp <= now

\* `if redis_client.get_json("blacklist:<jti>")`: the stored reason is loaded
\* and tested for truth, so a stored "" counts like a missing key.
Blacklisted(j) == j \in DOMAIN blacklist /\ blacklist[j].value # ""

\* verify_token: jwt.decode checks the signature, then exp, and raises
\* ValueError with one of two messages; signed tells whether the presented
\* string carries the signature the server gave to the claims of j.
verify_token(j, signed) ==
    IF ~signed THEN "Invalid token"
    ELSE IF Expired(j) THEN "Token expired"
    ELSE "payload"

\* `except Exception as e: ... raise TokenExpiredException()`: what both
\* handlers make of an exception that is not one of their own three.
Unexpected(e) == "TokenExpired"

\* The same checks with the deny-list read before the type tag.
FirstChecks_DenyListFirst(j, type) ==
    IF Expired(j) THEN "TokenExpired"
    ELSE IF Blacklisted(j) THEN "TokenRevoked"
    ELSE IF tokens[j].type # type THEN "TokenExpired"
    ELSE "pass"

\* The same checks without the one of the type tag.
FirstChecks_AnyType(j, type) ==
    IF Expired(j) THEN "TokenExpired"
    ELSE IF Blacklisted(j) THEN "TokenRevoked"
    ELSE "pass"

\* The checks verify_access_token and refresh_session make before their
\* second round trip: decode, type tag, deny-list.  verify_token's
\* ValueError is turned into TokenExpiredException by the handlers.
FirstChecks(j, type) ==
    IF Expired(j) THEN "TokenExpired"
    ELSE IF tokens[j].type # type THEN "TokenExpired"
    ELSE IF Blacklisted(j) THEN "TokenRevoked"
    ELSE "pass"

\* The same check when a missing marker counts as activity.
IsUserInactive_MissingIsActive(u) ==
    IF u \notin DOMAIN user_activity THEN FALSE
    ELSE (now - user_activity[u].value) > INACTIVITY_TIMEOUT_SECONDS

\* _is_user_inactive: no marker, or a marker older than the timeout.
IsUserInactive(u) ==
    IF u \notin DOMAIN user_activity THEN TRUE
    ELSE (now - user_activity[u].value) > INACTIVITY_TIMEOUT_SECONDS

\* What verify_access_token answers for token j in the current state.
VerifyOutcome(j) ==
    LET c == FirstChecks(j, "access") IN
    IF c # "pass" THEN c
    ELSE IF tokens[j].session_id \notin DOMAIN session_cache THEN "SessionExpired"
    ELSE "ok"

\* What refresh_session answers for token j in the current state.
RefreshOutcome(j) ==
    LET c == FirstChecks(j, "refresh") IN
    IF c # "pass" THEN c
    ELSE IF IsUserInactive(tokens[j].user_id) THEN "SessionExpired"
    ELSE "ok"

(* ------------------------ Durable Session Store ----------------------- *)
\* SessionCRUD.create: INSERT; status and last_activity take the column
\* defaults ('active', CURRENT_TIMESTAMP).
CrudCreate(session_id, user_id, access_jti, refresh_jti) ==
    [s \in DOMAIN rows \cup {session_id} |->
        IF s = session_id
        THEN [user_id |-> user_id, access_token_jti |-> access_jti,
              refresh_token_jti |-> refresh_jti, last_activity |-> now,
              created_at |-> now,
              status |-> "active", revoked_reason |-> "none"]
        ELSE rows[s]]

\* The same UPDATE without the refresh_token_jti column.
CrudUpdate_KeepsRefreshJti(session_id, access_jti, refresh_jti) ==
    [s \in DOMAIN rows |->
        IF s = session_id
        THEN [rows[s] EXCEPT !.access_token_jti = access_jti,
                             !.last_activity = now]
        ELSE rows[s]]

\* SessionCRUD.update: UPDATE ... WHERE session_id = %s (any status).
CrudUpdate(session_id, access_jti, refresh_jti) ==
    [s \in DOMAIN rows |->
        IF s = session_id
        THEN [rows[s] EXCEPT !.access_token_jti = access_jti,
                             !.refresh_token_jti = refresh_jti,
                             !.last_activity = now]
        ELSE rows[s]]

\* SessionCRUD.update_last_activity: ... WHERE session_id AND status = 'active'.
CrudUpdateLastActivity(session_id) ==
    [s \in DOMAIN rows |->
        IF s = session_id /\ rows[s].status = "active"
        THEN [rows[s] EXCEPT !.last_activity = now]
        ELSE rows[s]]

\* SessionCRUD.get_by_user(user_id, "active"): the ids of the matching rows.
CrudGetByUser(user_id) ==
    {s \in DOMAIN rows : rows[s].user_id = user_id /\ rows[s].status = "active"}

\* The same UPDATE without its status condition.
CrudRevokeSession_AnyStatus(session_id, reason) ==
    [s \in DOMAIN rows |->
        IF s = session_id
        THEN [rows[s] EXCEPT !.status = "revoked", !.revoked_reason = reason]
        ELSE rows[s]]

\* SessionCRUD.revoke_session: ... WHERE session_id = %s AND status = 'active'.
CrudRevokeSession(session_id, reason) ==
    [s \in DOMAIN rows |->
        IF s = session_id /\ rows[s].status = "active"
        THEN [rows[s] EXCEPT !.status = "revoked", !.revoked_reason = reason]
        ELSE rows[s]]

\* The bulk UPDATE without its `session_id != %s` condition.
RevokeUserSessionsMatch_NoExclusion(user_id, exclude_session) ==
    {s \in DOMAIN rows : rows[s].user_id = user_id /\ rows[s].status = "active"}

\* The bulk UPDATE without its `user_id = %s` condition.
RevokeUserSessionsMatch_AnyUser(user_id, exclude_session) ==
    {s \in DOMAIN rows :
        rows[s].status = "active" /\ (exclude_session # 0 => s # exclude_session)}

\* SessionCRUD.revoke_user_sessions: the rows the bulk UPDATE matches.
RevokeUserSessionsMatch(user_id, exclude_session) ==
    {s \in DOMAIN rows :
        /\ rows[s].user_id = user_id
        /\ rows[s].status = "active"
        /\ (exclude_session # 0 => s # exclude_session)}

CrudRevokeUserSessions(user_id, reason, exclude_session) ==
    [s \in DOMAIN rows |->
        IF s \in RevokeUserSessionsMatch(user_id, exclude_session)
        THEN [rows[s] EXCEPT !.status = "revoked", !.revoked_reason = reason]
        ELSE rows[s]]

\* The cleanup UPDATE without its status condition.
CleanupMatch_AnyStatus(hours) ==
    {s \in DOMAIN rows : rows[s].last_activity < now - hours * 3600}

\* SessionCRUD.cleanup_expired_sessions(hours): the rows the UPDATE matches.
CleanupMatch(hours) ==
    {s \in DOMAIN rows :
        rows[s].last_activity < now - hours * 3600 /\ rows[s].status = "active"}

CrudCleanupExpiredSessions(hours) ==
    [s \in DOMAIN rows |->
        IF s \in CleanupMatch(hours)
        THEN [rows[s] EXCEPT !.status = "expired", !.revoked_reason = "cleanup_job"]
        ELSE rows[s]]

\* One element of get_by_user's result, as the handler reads it.
Snapshot(s) ==
    [session_id |-> s, access_token_jti |-> rows[s].access_token_jti,
     refresh_token_jti |-> rows[s].refresh_token_jti]

\* ORDER BY s.last_activity DESC (ties in id order).
First(ss) ==
    CHOOSE s \in ss : \A t \in ss :
        \/ rows[s].last_activity > rows[t].last_activity
        \/ rows[s].last_activity = rows[t].last_activity /\ s <= t

RECURSIVE Ordered(_)
Ordered(ss) ==
    IF ss = {} THEN <<>>
    ELSE <<Snapshot(First(ss))>> \o Ordered(ss \ {First(ss)})

(* ------------------------- tokens on the wire ------------------------- *)
JWT_SECRET_KEY == "default-secret-change-me"

NoClaims == [user_id |-> 0, session_id |-> 0, jti |-> 0]

NoToken == [claims |-> NoClaims, sig |-> <<>>]

\* dict.update: the entries of more replace or extend the entries of d.
update(d, more) ==
    [k \in DOMAIN d \cup DOMAIN more |-> IF k \in DOMAIN more THEN more[k] ELSE d[k]]

\* jwt.encode: the claims, readable by anyone, under a signature that only
\* the holder of key can compute for them.  A datetime exp travels as
\* seconds since the epoch.
jwt_encode(payload, key) == [claims |-> payload, sig |-> <<key, payload>>]

\* jwt.decode: the signature is checked against the claims first, then exp.
jwt_decode(token, key) ==
    IF token.sig # <<key, token.claims>> THEN "InvalidTokenError"
    ELSE IF token.claims.exp <= now THEN "ExpiredSignatureError"
    ELSE "payload"

\* create_access_token
create_access_token(data) ==
    jwt_encode(update(data, [exp |-> now + AccessTTL, type |-> "access"]),
               JWT_SECRET_KEY)

\* A refresh token that carries the type tag of an access token.
create_refresh_token_TaggedAccess(data) ==
    jwt_encode(update(data, [exp |-> now + RefreshTTL, type |-> "access"]),
               JWT_SECRET_KEY)

\* create_refresh_token
create_refresh_token(data) ==
    jwt_encode(update(data, [exp |-> now + RefreshTTL, type |-> "refresh"]),
               JWT_SECRET_KEY)

\* verify_token on the token string: the payload, or the message of the
\* ValueError it raises.
decode_token(token) ==
    LET r == jwt_decode(token, JWT_SECRET_KEY) IN
    IF r = "ExpiredSignatureError" THEN "Token expired"
    ELSE IF r = "InvalidTokenError" THEN "Invalid token"
    ELSE "payload"

(* --------------------------- process state ---------------------------- *)
NoData == [user_id |-> 0, last_activity |-> 0, access_jti |-> 0,
           refresh_jti |-> 0, status |-> "none"]

\* op .. password are the handler's arguments, variables and result; fresh ..
\* after are history, written but never read by a handler.
Idle ==
    [op |-> "none", tok |-> 0, sid |-> 0, user |-> 0, reason |-> "", excl |-> 0,
     ajti |-> 0, rjti |-> 0, sdata |-> NoData, todo |-> <<>>, revoked_count |-> 0,
     res |-> "none", n |-> 0, username |-> "", password |-> "",
     fresh |-> FALSE, replay |-> FALSE, st0 |-> "none", seen |-> {},
     conc |-> {}, win |-> {}, raced |-> FALSE,
     lazy |-> FALSE, listed |-> FALSE, lapsed |-> FALSE,
     forged |-> FALSE, outage |-> "none",
     after |-> [sid |-> 0, user |-> 0],
     data |-> NoClaims, wire |-> NoToken, payload |-> NoClaims,
     kind |-> "none", issued |-> 0, tampered |-> FALSE,
     resident |-> FALSE, marked |-> FALSE, ret |-> <<>>,
     at |-> 0, sibling |-> FALSE, spared |-> FALSE, evicted |-> FALSE]

\* verify_access_token after its session-existence check.
PastSessionCheck == {"v_set_activity", "v_get_session", "v_set_session", "v_db"}

\* Between refresh_session's deny-list check and its cache write.
Window == {"r_inactive", "r_blacklist", "r_cache"}

\* Process p starts a handler with local state rec; conc records overlap.
Launch(p, rec) ==
    [q \in Procs |->
        IF q = p THEN [rec EXCEPT !.conc = {r \in Procs \ {p} : InFlight(r)}]
        ELSE IF InFlight(q) THEN [local[q] EXCEPT !.conc = @ \cup {p}]
        ELSE local[q]]

\* Process p goes on with local state rec.
Step(p, rec) == [local EXCEPT ![p] = rec]

\* As Step, when p leaves the Window.
StepOut(p, rec) ==
    [q \in Procs |-> IF q = p THEN rec ELSE [local[q] EXCEPT !.win = @ \ {p}]]

\* As Step, when p completes a revoke_session that ran inside the Window of
\* the processes in its win.
StepRaced(p, rec) ==
    [q \in Procs |->
        IF q = p THEN rec
        ELSE IF q \in local[p].win THEN [local[q] EXCEPT !.raced = TRUE]
        ELSE local[q]]

StatusOf(s) == IF s \in DOMAIN rows THEN rows[s].status ELSE "none"

\* jtis that refreshes past their first checks will still draw.
Reserved == 2 * Cardinality({q \in Procs : pc[q] \in {"r_inactive", "r_blacklist"}})

Start0 ==
    /\ now = 0
    /\ ticks = 0
    /\ rows = <<>>
    /\ session_cache = <<>>
    /\ user_activity = <<>>
    /\ blacklist = <<>>
    /\ tokens = <<>>
    /\ next_session = 1
    /\ next_jti = 1
    /\ users = <<>>
    /\ pc = [p \in Procs |-> "idle"]
    /\ local = [p \in Procs |-> Idle]

Init == Start0 /\ budget = MaxOps

SeqInit == Start0 /\ budget = MaxSeqOps

(* --------------------- AuthService.create_session --------------------- *)
\* An id generator that starts over at every call of a handler.
generate_jti_Restarts(k) == 1 + k

\* generate_jti: the digest of the time and of 64 random bits, taken to be a
\* value never drawn before; k counts the draws a handler makes in one step.
generate_jti(k) == next_jti + k

\* The users that own a session, or are about to.
Owners ==
    {rows[s].user_id : s \in DOMAIN rows}
        \cup {local[q].user : q \in {r \in Procs : pc[r] \in {"c_activity", "c_insert"}}}

\* generate ids, build both tokens, redis set_json session:<id>
\* (user ids are alike: a user without sessions is the least such user)
StartCreate(p, u) ==
    /\ ~InFlight(p)
    /\ u \in Owners \/ \A v \in Users \ Owners : u <= v
    /\ budget > 0
    /\ budget' = budget - 1
    /\ next_session <= MaxSessions
    /\ next_jti + Reserved + 1 <= MaxJti
    /\ session_cache' = Put(session_cache, next_session,
           [user_id |-> u, last_activity |-> now, access_jti |-> generate_jti(0),
            refresh_jti |-> generate_jti(1), status |-> "active"], AccessTTL)
    /\ next_session' = next_session + 1
    /\ next_jti' = next_jti + 2
    /\ pc' = [pc EXCEPT ![p] = "c_activity"]
    /\ local' = Launch(p, [Idle EXCEPT !.op = "create", !.user = u,
                                       !.sid = next_session,
                                       !.ajti = generate_jti(0),
                                       !.rjti = generate_jti(1)])
    /\ UNCHANGED <<users, now, ticks, rows, user_activity, blacklist, tokens>>

\* redis set_json user_activity:<user>
CreateActivity(p) ==
    /\ pc[p] = "c_activity"
    /\ user_activity' = Put(user_activity, local[p].user, now, INACTIVITY_TIMEOUT_SECONDS)
    /\ pc' = [pc EXCEPT ![p] = "c_insert"]
    /\ UNCHANGED <<users, budget, now, ticks, rows, session_cache, blacklist, tokens,
                   next_session, next_jti, local>>

\* session_crud.create, then the result is returned
CreateInsert(p) ==
    /\ pc[p] = "c_insert"
    /\ rows' = CrudCreate(local[p].sid, local[p].user, local[p].ajti, local[p].rjti)
    /\ tokens' = [j \in DOMAIN tokens \cup {local[p].ajti, local[p].rjti} |->
           IF j = local[p].ajti
           THEN Claims(local[p].user, local[p].sid, "access", AccessTTL, 0)
           ELSE IF j = local[p].rjti
           THEN Claims(local[p].user, local[p].sid, "refresh", RefreshTTL, 0)
           ELSE tokens[j]]
    /\ pc' = [pc EXCEPT ![p] = "done"]
    /\ local' = Step(p, [local[p] EXCEPT !.res = "ok"])
    /\ UNCHANGED <<users, budget, now, ticks, session_cache, user_activity, blacklist,
                   next_session, next_jti>>

(* ------------------- AuthService.verify_access_token ------------------ *)
\* verify_token, type check, redis get_json blacklist:<jti>
StartVerify(p, j) ==
    /\ ~InFlight(p)
    /\ budget > 0
    /\ budget' = budget - 1
    /\ j \in DOMAIN tokens
    /\ LET c == FirstChecks(j, "access")
           rec == [Idle EXCEPT !.op = "verify", !.tok = j,
                               !.user = tokens[j].user_id,
                               !.sid = tokens[j].session_id,
                               !.listed = j \in DOMAIN blacklist,
                               !.lapsed = Expired(j),
                               !.resident = tokens[j].session_id \in DOMAIN session_cache,
                               !.marked = tokens[j].user_id \in DOMAIN user_activity,
                               !.after = IF /\ pc[p] = "done"
                                            /\ local[p].op = "create"
                                            /\ local[p].res = "ok"
                                            /\ local[p].ajti = j
                                            /\ tokens[j].exp = now + AccessTTL
                                         THEN [sid |-> local[p].sid,
                                               user |-> local[p].user]
                                         ELSE Idle.after]
       IN IF c = "pass"
          THEN /\ pc' = [pc EXCEPT ![p] = "v_session"]
               /\ local' = Launch(p, rec)
          ELSE /\ pc' = [pc EXCEPT ![p] = "done"]
               /\ local' = Launch(p, [rec EXCEPT !.res = c])
    /\ UNCHANGED <<users, now, ticks, rows, session_cache, user_activity, blacklist,
                   tokens, next_session, next_jti>>

\* The same step when the session is not looked up in the cache.
VerifySession_NoLookup(p) ==
    /\ pc[p] = "v_session"
    /\ pc' = [pc EXCEPT ![p] = "v_set_activity"]
    /\ UNCHANGED <<users, budget, now, ticks, rows, session_cache, user_activity, blacklist,
                   tokens, next_session, next_jti, local>>

\* The same step when it also evaluates the user's inactivity.
VerifySession_ChecksInactivity(p) ==
    /\ pc[p] = "v_session"
    /\ IF local[p].sid \in DOMAIN session_cache /\ ~IsUserInactive(local[p].user)
       THEN /\ pc' = [pc EXCEPT ![p] = "v_set_activity"]
            /\ UNCHANGED local
       ELSE /\ pc' = [pc EXCEPT ![p] = "done"]
            /\ local' = Step(p, [local[p] EXCEPT !.res = "SessionExpired"])
    /\ UNCHANGED <<users, budget, now, ticks, rows, session_cache, user_activity, blacklist,
                   tokens, next_session, next_jti>>

\* redis get_json session:<id>
VerifySession(p) ==
    /\ pc[p] = "v_session"
    /\ IF local[p].sid \in DOMAIN session_cache
       THEN /\ pc' = [pc EXCEPT ![p] = "v_set_activity"]
            /\ UNCHANGED local
       ELSE /\ pc' = [pc EXCEPT ![p] = "done"]
            /\ local' = Step(p, [local[p] EXCEPT !.res = "SessionExpired"])
    /\ UNCHANGED <<users, budget, now, ticks, rows, session_cache, user_activity, blacklist,
                   tokens, next_session, next_jti>>

\* _update_user_activity: redis set_json user_activity:<user>
VerifySetActivity(p) ==
    /\ pc[p] = "v_set_activity"
    /\ user_activity' = Put(user_activity, local[p].user, now, INACTIVITY_TIMEOUT_SECONDS)
    /\ pc' = [pc EXCEPT ![p] = "v_get_session"]
    /\ UNCHANGED <<users, budget, now, ticks, rows, session_cache, blacklist, tokens,
                   next_session, next_jti, local>>

\* _update_user_activity: redis get_json session:<id>
VerifyGetSession(p) ==
    /\ pc[p] = "v_get_session"
    /\ IF local[p].sid \in DOMAIN session_cache
       THEN /\ pc' = [pc EXCEPT ![p] = "v_set_session"]
            /\ local' = Step(p, [local[p] EXCEPT
                                    !.sdata = session_cache[local[p].sid].value])
       ELSE /\ pc' = [pc EXCEPT ![p] = "v_db"]
            /\ UNCHANGED local
    /\ UNCHANGED <<users, budget, now, ticks, rows, session_cache, user_activity, blacklist,
                   tokens, next_session, next_jti>>

\* The same step when the entry is left as it was read.
VerifySetSession_Skipped(p) ==
    /\ pc[p] = "v_set_session"
    /\ pc' = [pc EXCEPT ![p] = "v_db"]
    /\ local' = Step(p, [local[p] EXCEPT !.sdata = NoData])
    /\ UNCHANGED <<users, budget, now, ticks, rows, session_cache, user_activity, blacklist,
                   tokens, next_session, next_jti>>

\* _update_user_activity: redis set_json session:<id>
VerifySetSession(p) ==
    /\ pc[p] = "v_set_session"
    /\ session_cache' = Put(session_cache, local[p].sid,
           [local[p].sdata EXCEPT !.last_activity = now], AccessTTL)
    /\ pc' = [pc EXCEPT ![p] = "v_db"]
    /\ local' = Step(p, [local[p] EXCEPT !.sdata = NoData])
    /\ UNCHANGED <<users, budget, now, ticks, rows, user_activity, blacklist, tokens,
                   next_session, next_jti>>

\* _update_user_activity: session_crud.update_last_activity; return payload
VerifyDb(p) ==
    /\ pc[p] = "v_db"
    /\ rows' = CrudUpdateLastActivity(local[p].sid)
    /\ pc' = [pc EXCEPT ![p] = "done"]
    /\ local' = Step(p, [local[p] EXCEPT !.res = "ok"])
    /\ UNCHANGED <<users, budget, now, ticks, session_cache, user_activity, blacklist, tokens,
                   next_session, next_jti>>

(* --------------------- AuthService.refresh_session -------------------- *)
\* The exchange without its deny-list write.
RetireRefreshToken_Forgotten(j) == blacklist

\* The same write with the lifetime of an access token.
RetireRefreshToken_AccessLifetime(j) == Put(blacklist, j, "refreshed", AccessTTL)

\* redis set_json blacklist:<jti> "refreshed", ttl REFRESH_TOKEN_EXPIRE_DAYS
RetireRefreshToken(j) == Put(blacklist, j, "refreshed", RefreshTTL)

\* j is the refresh token an active session's row names, unexpired and
\* without deny-list entry.
CurrentRefreshToken(j) ==
    /\ tokens[j].type = "refresh" /\ ~Expired(j) /\ j \notin DOMAIN blacklist
    /\ tokens[j].session_id \in DOMAIN rows
    /\ rows[tokens[j].session_id].status = "active"
    /\ rows[tokens[j].session_id].refresh_token_jti = j

\* A refresh_session that deletes the user's activity marker when it refuses
\* the token.
StartRefresh_RefusalDropsMarker(p, j) ==
    /\ ~InFlight(p)
    /\ budget > 0
    /\ budget' = budget - 1
    /\ j \in DOMAIN tokens
    /\ FirstChecks(j, "refresh") # "pass"
    /\ user_activity' = Del(user_activity, tokens[j].user_id)
    /\ pc' = [pc EXCEPT ![p] = "done"]
    /\ local' = Launch(p, [Idle EXCEPT
           !.op = "refresh", !.tok = j, !.user = tokens[j].user_id,
           !.sid = tokens[j].session_id, !.res = FirstChecks(j, "refresh")])
    /\ UNCHANGED <<users, now, ticks, rows, session_cache, blacklist, tokens,
                   next_session, next_jti>>

\* verify_token, type check, redis get_json blacklist:<jti>
StartRefresh(p, j) ==
    /\ ~InFlight(p)
    /\ budget > 0
    /\ budget' = budget - 1
    /\ j \in DOMAIN tokens
    /\ LET c == FirstChecks(j, "refresh")
           rec == [Idle EXCEPT
                      !.op = "refresh", !.tok = j,
                      !.user = tokens[j].user_id,
                      !.sid = tokens[j].session_id,
                      !.fresh = /\ tokens[j].type = "refresh"
                                /\ ~Expired(j)
                                /\ j \notin DOMAIN blacklist
                                /\ tokens[j].user_id \in DOMAIN user_activity,
                      !.listed = j \in DOMAIN blacklist,
                      !.lapsed = Expired(j),
                      !.lazy = /\ tokens[j].type = "refresh"
                               /\ ~Expired(j)
                               /\ j \notin DOMAIN blacklist
                               /\ tokens[j].user_id \notin DOMAIN user_activity,
                      !.replay = \E k \in DOMAIN tokens : tokens[k].parent = j,
                      !.st0 = StatusOf(tokens[j].session_id),
                      !.sibling = /\ Done(p, "revoke") /\ local[p].res = "true"
                                  /\ local[p].marked /\ local[p].at = now
                                  /\ local[p].user = tokens[j].user_id
                                  /\ local[p].sid # tokens[j].session_id
                                  /\ CurrentRefreshToken(j),
                      !.spared = /\ Done(p, "revoke_all") /\ local[p].res = "count"
                                 /\ local[p].marked /\ local[p].at = now
                                 /\ local[p].user = tokens[j].user_id
                                 /\ local[p].excl = tokens[j].session_id
                                 /\ CurrentRefreshToken(j)]
       IN /\ IF c = "pass"
             THEN /\ next_jti + Reserved + 1 <= MaxJti
                  /\ pc' = [pc EXCEPT ![p] = "r_inactive"]
                  /\ local' = Launch(p, rec)
             ELSE /\ pc' = [pc EXCEPT ![p] = "done"]
                  /\ local' = Launch(p, [rec EXCEPT !.res = c])
          /\ tokens' = IF c = "TokenRevoked" /\ rec.replay
                       THEN [tokens EXCEPT ![j].replayed = TRUE]
                       ELSE tokens
    /\ UNCHANGED <<users, now, ticks, rows, session_cache, user_activity, blacklist,
                   next_session, next_jti>>

\* _is_user_inactive: redis get_json user_activity:<user>
RefreshInactive(p) ==
    /\ pc[p] = "r_inactive"
    /\ IF IsUserInactive(local[p].user)
       THEN /\ pc' = [pc EXCEPT ![p] = "k_get"]
            /\ local' = StepOut(p, [local[p] EXCEPT !.reason = "inactivity_detected"])
       ELSE /\ pc' = [pc EXCEPT ![p] = "r_blacklist"]
            /\ UNCHANGED local
    /\ UNCHANGED <<users, budget, now, ticks, rows, session_cache, user_activity, blacklist,
                   tokens, next_session, next_jti>>

\* redis set_json blacklist:<old refresh jti>; then the new jtis and tokens
RefreshBlacklist(p) ==
    /\ pc[p] = "r_blacklist"
    /\ blacklist' = RetireRefreshToken(local[p].tok)
    /\ next_jti' = next_jti + 2
    /\ pc' = [pc EXCEPT ![p] = "r_cache"]
    /\ local' = Step(p, [local[p] EXCEPT !.ajti = generate_jti(0),
                                         !.rjti = generate_jti(1)])
    /\ UNCHANGED <<users, budget, now, ticks, rows, session_cache, user_activity, tokens,
                   next_session>>

\* _update_session_tokens: redis set_json session:<id>
RefreshCache(p) ==
    /\ pc[p] = "r_cache"
    /\ session_cache' = Put(session_cache, local[p].sid,
           [user_id |-> local[p].user, last_activity |-> now,
            access_jti |-> local[p].ajti, refresh_jti |-> local[p].rjti,
            status |-> "active"], AccessTTL)
    /\ pc' = [pc EXCEPT ![p] = "r_activity"]
    /\ local' = StepOut(p, local[p])
    /\ UNCHANGED <<users, budget, now, ticks, rows, user_activity, blacklist, tokens,
                   next_session, next_jti>>

\* _update_session_tokens: redis set_json user_activity:<user>
RefreshActivity(p) ==
    /\ pc[p] = "r_activity"
    /\ user_activity' = Put(user_activity, local[p].user, now, INACTIVITY_TIMEOUT_SECONDS)
    /\ pc' = [pc EXCEPT ![p] = "r_update"]
    /\ UNCHANGED <<users, budget, now, ticks, rows, session_cache, blacklist, tokens,
                   next_session, next_jti, local>>

\* _update_session_tokens: session_crud.update; then the new pair is returned
RefreshUpdate(p) ==
    /\ pc[p] = "r_update"
    /\ rows' = CrudUpdate(local[p].sid, local[p].ajti, local[p].rjti)
    /\ tokens' = [j \in DOMAIN tokens \cup {local[p].ajti, local[p].rjti} |->
           IF j = local[p].ajti
           THEN Claims(local[p].user, local[p].sid, "access", AccessTTL, local[p].tok)
           ELSE IF j = local[p].rjti
           THEN Claims(local[p].user, local[p].sid, "refresh", RefreshTTL, local[p].tok)
           ELSE tokens[j]]
    /\ pc' = [pc EXCEPT ![p] = "done"]
    /\ local' = Step(p, [local[p] EXCEPT !.res = "ok"])
    /\ UNCHANGED <<users, budget, now, ticks, session_cache, user_activity, blacklist,
                   next_session, next_jti>>

(* --------------------- AuthService.revoke_session --------------------- *)
\* What revoke_session's caller gets: refresh_session raises SessionExpired
\* whatever its own call of revoke_session returned.
RevokeResult(rec, b) == IF rec.op = "refresh" THEN "SessionExpired" ELSE b

\* session_crud.get: the row's user and jtis, or a miss (return False)
Lookup(rec) ==
    IF rec.sid \in DOMAIN rows
    THEN [rec EXCEPT !.user = rows[rec.sid].user_id,
                     !.ajti = rows[rec.sid].access_token_jti,
                     !.rjti = rows[rec.sid].refresh_token_jti]
    ELSE [rec EXCEPT !.res = RevokeResult(rec, "false")]

\* The handler going on to its writes without looking at the row.
AfterLookup_MissIgnored(rec) == "k_del_session"

\* `if not session: return False`, else on to the deny-list writes
AfterLookup(rec) == IF rec.sid \in DOMAIN rows THEN "k_bl_access" ELSE "done"

StartRevoke(p, s, reason) ==
    /\ ~InFlight(p)
    /\ budget > 0
    /\ budget' = budget - 1
    /\ LET rec == [Idle EXCEPT
                      !.op = "revoke", !.sid = s, !.reason = reason,
                      !.st0 = StatusOf(s), !.at = now,
                      !.marked = /\ s \in DOMAIN rows
                                 /\ rows[s].user_id \in DOMAIN user_activity,
                      !.win = {q \in Procs \ {p} :
                                  /\ local[q].op = "refresh"
                                  /\ local[q].sid = s
                                  /\ pc[q] \in Window}]
       IN /\ pc' = [pc EXCEPT ![p] = AfterLookup(rec)]
          /\ local' = Launch(p, Lookup(rec))
    /\ UNCHANGED <<users, now, ticks, rows, session_cache, user_activity, blacklist,
                   tokens, next_session, next_jti>>

\* revoke_session as called by refresh_session: session_crud.get
RevokeGet(p) ==
    /\ pc[p] = "k_get"
    /\ pc' = [pc EXCEPT ![p] = AfterLookup(local[p])]
    /\ local' = Step(p, Lookup(local[p]))
    /\ UNCHANGED <<users, budget, now, ticks, rows, session_cache, user_activity, blacklist,
                   tokens, next_session, next_jti>>

\* redis set_json blacklist:<access jti>
RevokeBlacklistAccess(p) ==
    /\ pc[p] = "k_bl_access"
    /\ blacklist' = Put(blacklist, local[p].ajti, local[p].reason, AccessTTL)
    /\ pc' = [pc EXCEPT ![p] = "k_bl_refresh"]
    /\ UNCHANGED <<users, budget, now, ticks, rows, session_cache, user_activity, tokens,
                   next_session, next_jti, local>>

\* redis set_json blacklist:<refresh jti>
RevokeBlacklistRefresh(p) ==
    /\ pc[p] = "k_bl_refresh"
    /\ blacklist' = Put(blacklist, local[p].rjti, local[p].reason, RefreshTTL)
    /\ pc' = [pc EXCEPT ![p] = "k_del_session"]
    /\ UNCHANGED <<users, budget, now, ticks, rows, session_cache, user_activity, tokens,
                   next_session, next_jti, local>>

\* redis delete session:<id>
RevokeDeleteSession(p) ==
    /\ pc[p] = "k_del_session"
    /\ session_cache' = Del(session_cache, local[p].sid)
    /\ pc' = [pc EXCEPT ![p] = "k_del_activity"]
    /\ local' = [q \in Procs |->
           IF q # p /\ pc[q] \in PastSessionCheck /\ local[q].sid = local[p].sid
           THEN [local[q] EXCEPT !.evicted = TRUE]
           ELSE local[q]]
    /\ UNCHANGED <<users, budget, now, ticks, rows, user_activity, blacklist, tokens,
                   next_session, next_jti>>

\* redis delete user_activity:<user>
RevokeDeleteActivity(p) ==
    /\ pc[p] = "k_del_activity"
    /\ user_activity' = Del(user_activity, local[p].user)
    /\ pc' = [pc EXCEPT ![p] = "k_db"]
    /\ UNCHANGED <<users, budget, now, ticks, rows, session_cache, blacklist, tokens,
                   next_session, next_jti, local>>

\* session_crud.revoke_session; return True
RevokeDb(p) ==
    /\ pc[p] = "k_db"
    /\ rows' = CrudRevokeSession(local[p].sid, local[p].reason)
    /\ pc' = [pc EXCEPT ![p] = "done"]
    /\ local' = StepRaced(p, [local[p] EXCEPT !.res = RevokeResult(local[p], "true")])
    /\ UNCHANGED <<users, budget, now, ticks, session_cache, user_activity, blacklist, tokens,
                   next_session, next_jti>>

(* ----------------- AuthService.revoke_all_user_sessions --------------- *)
\* session_crud.get_by_user(user, "active"); the loop skips exclude_session
StartRevokeAll(p, u, reason, excl) ==
    /\ ~InFlight(p)
    /\ budget > 0
    /\ budget' = budget - 1
    /\ LET listed == {s \in CrudGetByUser(u) : ~(excl # 0 /\ s = excl)}
       IN /\ pc' = [pc EXCEPT ![p] =
                       IF listed = {} THEN "a_del_activity" ELSE "a_bl_access"]
          /\ local' = Launch(p, [Idle EXCEPT
                                    !.op = "revoke_all", !.user = u,
                                    !.reason = reason, !.excl = excl,
                                    !.todo = Ordered(listed), !.seen = listed,
                                    !.st0 = StatusOf(excl), !.at = now,
                                    !.marked = u \in DOMAIN user_activity])
    /\ UNCHANGED <<users, now, ticks, rows, session_cache, user_activity, blacklist,
                   tokens, next_session, next_jti>>

\* redis set_json blacklist:<access jti> of the session at hand
RevokeAllBlacklistAccess(p) ==
    /\ pc[p] = "a_bl_access"
    /\ blacklist' = Put(blacklist, local[p].todo[1].access_token_jti,
                        local[p].reason, AccessTTL)
    /\ pc' = [pc EXCEPT ![p] = "a_bl_refresh"]
    /\ UNCHANGED <<users, budget, now, ticks, rows, session_cache, user_activity, tokens,
                   next_session, next_jti, local>>

\* redis set_json blacklist:<refresh jti> of the session at hand
RevokeAllBlacklistRefresh(p) ==
    /\ pc[p] = "a_bl_refresh"
    /\ blacklist' = Put(blacklist, local[p].todo[1].refresh_token_jti,
                        local[p].reason, RefreshTTL)
    /\ pc' = [pc EXCEPT ![p] = "a_del_session"]
    /\ UNCHANGED <<users, budget, now, ticks, rows, session_cache, user_activity, tokens,
                   next_session, next_jti, local>>

\* redis delete session:<id>; revoked_count += 1; on to the next session
RevokeAllDeleteSession(p) ==
    /\ pc[p] = "a_del_session"
    /\ session_cache' = Del(session_cache, local[p].todo[1].session_id)
    /\ pc' = [pc EXCEPT ![p] =
                 IF Len(local[p].todo) = 1 THEN "a_del_activity" ELSE "a_bl_access"]
    /\ local' = Step(p, [local[p] EXCEPT !.todo = Tail(@),
                                         !.revoked_count = @ + 1])
    /\ UNCHANGED <<users, budget, now, ticks, rows, user_activity, blacklist, tokens,
                   next_session, next_jti>>

\* redis delete user_activity:<user>
RevokeAllDeleteActivity(p) ==
    /\ pc[p] = "a_del_activity"
    /\ user_activity' = Del(user_activity, local[p].user)
    /\ pc' = [pc EXCEPT ![p] = "a_db"]
    /\ UNCHANGED <<users, budget, now, ticks, rows, session_cache, blacklist, tokens,
                   next_session, next_jti, local>>

\* session_crud.revoke_user_sessions; return its row count
RevokeAllDb(p) ==
    /\ pc[p] = "a_db"
    /\ rows' = CrudRevokeUserSessions(local[p].user, local[p].reason, local[p].excl)
    /\ pc' = [pc EXCEPT ![p] = "done"]
    /\ local' = Step(p, [local[p] EXCEPT
           !.res = "count",
           !.n = Cardinality(RevokeUserSessionsMatch(local[p].user, local[p].excl))])
    /\ UNCHANGED <<users, budget, now, ticks, session_cache, user_activity, blacklist, tokens,
                   next_session, next_jti>>

(* ------------------ CleanupWorker._cleanup_mysql_sessions ------------- *)
\* One UPDATE.  The worker's pass over redis deletes the user_activity keys
\* older than the same cutoff; their TTL (INACTIVITY_TIMEOUT_SECONDS) ends
\* before that, so the pass finds none.
Cleanup(p) ==
    /\ ~InFlight(p)
    /\ budget > 0
    /\ budget' = budget - 1
    /\ rows' = CrudCleanupExpiredSessions(retention_hours)
    /\ pc' = [pc EXCEPT ![p] = "done"]
    /\ local' = Launch(p, [Idle EXCEPT !.op = "cleanup", !.res = "count",
                                       !.n = Cardinality(CleanupMatch(retention_hours))])
    /\ UNCHANGED <<users, now, ticks, session_cache, user_activity, blacklist, tokens,
                   next_session, next_jti>>

(* ------------------- AuthService.authenticate_user -------------------- *)
\* str.lower().strip() on the names at hand
lower_strip(name) == IF name = "Alice " THEN "alice" ELSE name

\* bcrypt.hashpw: the digest stands for the password it was made from
hash_password(password) == <<"bcrypt", password>>

\* bcrypt.checkpw
verify_password(password, hashed) == hashed = hash_password(password)

\* UserCRUD.username_exists: SELECT COUNT(*) ... WHERE username = %s
username_exists(name) ==
    \E i \in 1 .. Len(users) : users[i].username = lower_strip(name)

\* The same SELECT with the name as it was typed.
get_by_username_AsTyped(name) ==
    LET found == {i \in 1 .. Len(users) :
                     users[i].username = name /\ users[i].is_active}
    IN IF found = {} THEN 0 ELSE CHOOSE i \in found : TRUE

\* UserCRUD.get_by_username: ... WHERE username = %s AND is_active = TRUE,
\* fetchone; 0 stands for None.
get_by_username(name) ==
    LET found == {i \in 1 .. Len(users) :
                     users[i].username = lower_strip(name) /\ users[i].is_active}
    IN IF found = {} THEN 0 ELSE CHOOSE i \in found : TRUE

\* POST /users: username_exists, then UserCRUD.create (is_active takes the
\* column default)
UserCreate(name, password) ==
    /\ Len(users) < MaxUsers
    /\ ~username_exists(name)
    /\ users' = Append(users, [username |-> lower_strip(name),
                               password_hash |-> hash_password(password),
                               is_active |-> TRUE])
    /\ UNCHANGED <<now, ticks, rows, session_cache, user_activity, blacklist, tokens,
                   next_session, next_jti, budget, pc, local>>

\* UserCRUD.delete: UPDATE users SET is_active = FALSE WHERE id = %s
UserDelete(id) ==
    /\ id \in 1 .. Len(users)
    /\ users' = [users EXCEPT ![id].is_active = FALSE]
    /\ UNCHANGED <<now, ticks, rows, session_cache, user_activity, blacklist, tokens,
                   next_session, next_jti, budget, pc, local>>

\* UserCRUD.change_password: UPDATE users SET password_hash = %s WHERE id = %s
UserChangePassword(id, password) ==
    /\ id \in 1 .. Len(users)
    /\ users' = [users EXCEPT ![id].password_hash = hash_password(password)]
    /\ UNCHANGED <<now, ticks, rows, session_cache, user_activity, blacklist, tokens,
                   next_session, next_jti, budget, pc, local>>

\* A pop that leaves the dict as it is.
pop_Nothing(d, key) == d

\* dict.pop(key, None): the dict without the key
pop(d, key) == [k \in DOMAIN d \ {key} |-> d[k]]

\* cursor.fetchone() of get_by_username's SELECT: the row as a dict
fetchone(id) == update([id |-> id], users[id])

\* authenticate_user is called
StartAuthenticate(p, name, password) ==
    /\ ~InFlight(p)
    /\ pc' = [pc EXCEPT ![p] = "u_lookup"]
    /\ local' = Launch(p, [Idle EXCEPT !.op = "authenticate",
                                       !.username = name, !.password = password])
    /\ UNCHANGED <<users, now, ticks, rows, session_cache, user_activity, blacklist,
                   tokens, next_session, next_jti, budget>>

\* user_crud.get_by_username, verify_password, is_active, pop password_hash
AuthLookup(p) ==
    /\ pc[p] = "u_lookup"
    /\ LET id == get_by_username(local[p].username)
           ok == /\ id # 0
                 /\ verify_password(local[p].password, users[id].password_hash)
                 /\ users[id].is_active
       IN local' = Step(p, [local[p] EXCEPT
              !.res = IF ok THEN "user" ELSE "None",
              !.user = IF ok THEN id ELSE 0,
              !.ret = IF ok THEN pop(fetchone(id), "password_hash") ELSE <<>>])
    /\ pc' = [pc EXCEPT ![p] = "done"]
    /\ UNCHANGED <<users, now, ticks, rows, session_cache, user_activity, blacklist,
                   tokens, next_session, next_jti, budget>>

\* UserCRUD.get_by_username when the SELECT fails: the exception is logged and
\* None is returned, which authenticate_user takes for an unknown username.
AuthLookupFails(p) ==
    /\ pc[p] = "u_lookup"
    /\ local' = Step(p, [local[p] EXCEPT !.res = "None", !.outage = "db_read"])
    /\ pc' = [pc EXCEPT ![p] = "done"]
    /\ UNCHANGED <<users, now, ticks, rows, session_cache, user_activity, blacklist,
                   tokens, next_session, next_jti, budget>>

(* ---------------------------- forged tokens --------------------------- *)
\* verify_access_token with the claims of j under a signature that does not
\* verify: verify_token raises ValueError
StartVerifyForged(p, j) ==
    /\ ~InFlight(p)
    /\ budget > 0
    /\ budget' = budget - 1
    /\ j \in DOMAIN tokens
    /\ pc' = [pc EXCEPT ![p] = "done"]
    /\ local' = Launch(p, [Idle EXCEPT
           !.op = "verify", !.tok = j, !.forged = TRUE,
           !.res = Unexpected(verify_token(j, FALSE))])
    /\ UNCHANGED <<users, now, ticks, rows, session_cache, user_activity, blacklist,
                   tokens, next_session, next_jti>>

\* refresh_session with such a token
StartRefreshForged(p, j) ==
    /\ ~InFlight(p)
    /\ budget > 0
    /\ budget' = budget - 1
    /\ j \in DOMAIN tokens
    /\ pc' = [pc EXCEPT ![p] = "done"]
    /\ local' = Launch(p, [Idle EXCEPT
           !.op = "refresh", !.tok = j, !.forged = TRUE,
           !.res = Unexpected(verify_token(j, FALSE))])
    /\ UNCHANGED <<users, now, ticks, rows, session_cache, user_activity, blacklist,
                   tokens, next_session, next_jti>>

(* ---------------------------- store outages --------------------------- *)
\* SessionCRUD.create when the INSERT fails: the exception is logged, None is
\* returned, and create_session returns its result all the same.
CreateInsertFails(p) ==
    /\ pc[p] = "c_insert"
    /\ tokens' = [j \in DOMAIN tokens \cup {local[p].ajti, local[p].rjti} |->
           IF j = local[p].ajti
           THEN Claims(local[p].user, local[p].sid, "access", AccessTTL, 0)
           ELSE IF j = local[p].rjti
           THEN Claims(local[p].user, local[p].sid, "refresh", RefreshTTL, 0)
           ELSE tokens[j]]
    /\ pc' = [pc EXCEPT ![p] = "done"]
    /\ local' = Step(p, [local[p] EXCEPT !.res = "ok", !.outage = "db_write"])
    /\ UNCHANGED <<users, budget, now, ticks, rows, session_cache, user_activity,
                   blacklist, next_session, next_jti>>

\* RedisClient.get_json when the read of session:<id> fails: the exception is
\* logged, None is returned, and verify_access_token takes it for a miss.
VerifySessionFails(p) ==
    /\ pc[p] = "v_session"
    /\ pc' = [pc EXCEPT ![p] = "done"]
    /\ local' = Step(p, [local[p] EXCEPT !.res = "SessionExpired",
                                         !.outage = "cache_read"])
    /\ UNCHANGED <<users, budget, now, ticks, rows, session_cache, user_activity,
                   blacklist, tokens, next_session, next_jti>>

\* RedisClient.get_json when the read of user_activity:<user> fails: None,
\* which _is_user_inactive takes for a missing marker.
RefreshInactiveFails(p) ==
    /\ pc[p] = "r_inactive"
    /\ pc' = [pc EXCEPT ![p] = "k_get"]
    /\ local' = StepOut(p, [local[p] EXCEPT !.reason = "inactivity_detected",
                                            !.outage = "cache_read"])
    /\ UNCHANGED <<users, budget, now, ticks, rows, session_cache, user_activity,
                   blacklist, tokens, next_session, next_jti>>

\* RedisClient.set_json when the write of blacklist:<old refresh jti> fails:
\* False is returned and not looked at; the new jtis and tokens follow.
RefreshBlacklistFails(p) ==
    /\ pc[p] = "r_blacklist"
    /\ next_jti' = next_jti + 2
    /\ pc' = [pc EXCEPT ![p] = "r_cache"]
    /\ local' = Step(p, [local[p] EXCEPT !.ajti = next_jti, !.rjti = next_jti + 1,
                                         !.outage = "cache_write"])
    /\ UNCHANGED <<users, budget, now, ticks, rows, session_cache, user_activity,
                   blacklist, tokens, next_session>>

\* SessionCRUD.update when the UPDATE fails: None is returned and not looked
\* at; refresh_session returns the new pair.
RefreshUpdateFails(p) ==
    /\ pc[p] = "r_update"
    /\ tokens' = [j \in DOMAIN tokens \cup {local[p].ajti, local[p].rjti} |->
           IF j = local[p].ajti
           THEN Claims(local[p].user, local[p].sid, "access", AccessTTL, local[p].tok)
           ELSE IF j = local[p].rjti
           THEN Claims(local[p].user, local[p].sid, "refresh", RefreshTTL, local[p].tok)
           ELSE tokens[j]]
    /\ pc' = [pc EXCEPT ![p] = "done"]
    /\ local' = Step(p, [local[p] EXCEPT !.res = "ok", !.outage = "db_write"])
    /\ UNCHANGED <<users, budget, now, ticks, rows, session_cache, user_activity,
                   blacklist, next_session, next_jti>>

(* ------------------- issuing and decoding a token --------------------- *)
\* create_access_token / create_refresh_token on the claims a handler builds.
\* kind and issued are history.
IssueToken(p, data, type) ==
    /\ ~InFlight(p)
    /\ pc' = [pc EXCEPT ![p] = "done"]
    /\ local' = Step(p, [Idle EXCEPT
            !.op = "issue", !.data = data, !.kind = type, !.issued = now,
            !.wire = IF type = "access" THEN create_access_token(data)
                     ELSE create_refresh_token(data)])
    /\ UNCHANGED <<users, budget, now, ticks, rows, session_cache, user_activity,
                   blacklist, tokens, next_session, next_jti>>

\* The holder of a token rewrites its user_id and keeps the signature.
TamperToken(p, u) ==
    /\ Done(p, "issue")
    /\ u # local[p].wire.claims.user_id
    /\ local' = Step(p, [local[p] EXCEPT
            !.wire = [@ EXCEPT !.claims = update(@, [user_id |-> u])],
            !.tampered = TRUE])
    /\ UNCHANGED <<users, budget, now, ticks, rows, session_cache, user_activity,
                   blacklist, tokens, next_session, next_jti, pc>>

\* verify_token on the token as it comes back.
DecodeToken(p) ==
    /\ Done(p, "issue")
    /\ LET r == decode_token(local[p].wire) IN
        local' = Step(p, [local[p] EXCEPT
            !.op = "decode", !.res = r,
            !.payload = IF r = "payload" THEN local[p].wire.claims ELSE NoClaims])
    /\ UNCHANGED <<users, budget, now, ticks, rows, session_cache, user_activity,
                   blacklist, tokens, next_session, next_jti, pc>>

(* -------------------------------- time -------------------------------- *)
\* The clock advances between operations; redis drops the keys whose TTL
\* has run out.
Tick ==
    /\ \A p \in Procs : ~InFlight(p)
    /\ ticks < MaxTicks
    /\ \E d \in TickSteps :
        /\ now' = now + d
        /\ session_cache' = Live(session_cache, now + d)
        /\ user_activity' = Live(user_activity, now + d)
        /\ blacklist' = Live(blacklist, now + d)
    /\ ticks' = ticks + 1
    /\ UNCHANGED <<users, budget, rows, tokens, next_session, next_jti, pc, local>>

(* --------------------------- specifications --------------------------- *)
Start(p) ==
    \/ \E u \in Users : StartCreate(p, u)
    \/ \E j \in Jtis : StartVerify(p, j)
    \/ \E j \in Jtis : StartRefresh(p, j)
    \/ \E s \in Sids, r \in Reasons : StartRevoke(p, s, r)
    \/ \E u \in Users, r \in Reasons, x \in {0} \cup Sids : StartRevokeAll(p, u, r, x)
    \/ Cleanup(p)

Continue(p) ==
    \/ CreateActivity(p) \/ CreateInsert(p)
    \/ VerifySession(p) \/ VerifySetActivity(p) \/ VerifyGetSession(p)
    \/ VerifySetSession(p) \/ VerifyDb(p)
    \/ RefreshInactive(p) \/ RefreshBlacklist(p) \/ RefreshCache(p)
    \/ RefreshActivity(p) \/ RefreshUpdate(p)
    \/ RevokeGet(p) \/ RevokeBlacklistAccess(p) \/ RevokeBlacklistRefresh(p)
    \/ RevokeDeleteSession(p) \/ RevokeDeleteActivity(p) \/ RevokeDb(p)
    \/ RevokeAllBlacklistAccess(p) \/ RevokeAllBlacklistRefresh(p)
    \/ RevokeAllDeleteSession(p) \/ RevokeAllDeleteActivity(p) \/ RevokeAllDb(p)

\* Two service instances, interleaved at every round trip.  The instances are
\* alike, so the second one takes only the calls that arrive while the first
\* is busy.
Next ==
    \/ Tick
    \/ Start(1)
    \/ InFlight(1) /\ Start(2)
    \/ \E p \in Procs : Continue(p)

Spec == Init /\ [][Next]_vars

\* One service instance: one operation at a time.
SeqNext == Tick \/ Start(1) \/ Continue(1)

SeqSpec == SeqInit /\ [][SeqNext]_vars

\* One service instance whose callers also present forged tokens and whose
\* stores fail now and then.
Forged(p) ==
    \/ \E j \in Jtis : StartVerifyForged(p, j)
    \/ \E j \in Jtis : StartRefreshForged(p, j)

Outage(p) ==
    \/ CreateInsertFails(p) \/ VerifySessionFails(p) \/ RefreshInactiveFails(p)
    \/ RefreshBlacklistFails(p) \/ RefreshUpdateFails(p)

AdverseInit == Start0 /\ budget = MaxAdverseOps

AdverseNext == Tick \/ Start(1) \/ Continue(1) \/ Forged(1) \/ Outage(1)

AdverseSpec == AdverseInit /\ [][AdverseNext]_vars

\* The user table and the logins against it.
Accounts ==
    \/ \E name \in Names, password \in Passwords : UserCreate(name, password)
    \/ \E id \in 1 .. MaxUsers : UserDelete(id)
    \/ \E id \in 1 .. MaxUsers, password \in Passwords : UserChangePassword(id, password)

Login(p) ==
    \/ \E name \in Names, password \in Passwords : StartAuthenticate(p, name, password)
    \/ AuthLookup(p)
    \/ AuthLookupFails(p)

AuthInit == Start0 /\ budget = 0

AuthNext == Accounts \/ Login(1)

AuthSpec == AuthInit /\ [][AuthNext]_vars

\* The token codec alone: tokens issued, altered and decoded as time passes.
Codec(p) ==
    \/ \E u \in Users, s \in Sids, j \in Jtis, type \in {"access", "refresh"} :
          IssueToken(p, [user_id |-> u, session_id |-> s, jti |-> j], type)
    \/ \E u \in Users : TamperToken(p, u)
    \/ DecodeToken(p)

CodecInit == Start0 /\ budget = 0

CodecNext == Tick \/ Codec(1)

CodecSpec == CodecInit /\ [][CodecNext]_vars

(* ------------------------------- claims ------------------------------- *)

\* C1: two refresh_session calls started concurrently with the same fresh,
\* not deny-listed refresh token while the activity marker is present: exactly
\* one returns a new pair and the other fails with TokenRevoked.
C1_SingleUseRotation ==
    \A p \in Procs : \A q \in Procs \ {p} :
        ( /\ Done(p, "refresh") /\ Done(q, "refresh")
          /\ local[p].tok = local[q].tok
          /\ q \in local[p].conc
          /\ local[p].fresh /\ local[q].fresh )
        => \/ local[p].res = "ok" /\ local[q].res = "TokenRevoked"
           \/ local[p].res = "TokenRevoked" /\ local[q].res = "ok"

\* C2: when revoke_session(S) ran to completion between refresh_session's
\* deny-list check and its cache write for S, then once both have finished S
\* has no cache entry and verify_access_token accepts no token of S.
C2_RevokeBeatsRefresh ==
    \A p \in Procs :
        ( /\ Done(p, "refresh") /\ local[p].raced
          /\ \A q \in Procs : ~InFlight(q) )
        => /\ local[p].sid \notin DOMAIN session_cache
           /\ \A j \in DOMAIN tokens :
                 tokens[j].session_id = local[p].sid => VerifyOutcome(j) # "ok"

\* C3: for a live session whose activity marker is present, refresh_session
\* with its unused refresh token returns a new pair issued from that token;
\* presenting a token again after its exchange fails with TokenRevoked (or
\* TokenExpired once its exp has passed).
C3_SequentialRotation ==
    \A p \in Procs :
        Done(p, "refresh") =>
            /\ (local[p].fresh /\ local[p].st0 = "active") =>
                   /\ local[p].res = "ok"
                   /\ tokens[local[p].rjti].parent = local[p].tok
                   /\ tokens[local[p].rjti].type = "refresh"
                   /\ tokens[local[p].ajti].type = "access"
            /\ local[p].replay =>
                   \/ local[p].res = "TokenRevoked"
                   \/ local[p].res = "TokenExpired" /\ Expired(local[p].tok)

\* refresh1 has been exchanged after a replay of refresh0 was refused.
C3_Witness ==
    \E p \in Procs :
        /\ Done(p, "refresh") /\ local[p].res = "ok"
        /\ local[p].fresh /\ local[p].st0 = "active"
        /\ tokens[local[p].tok].parent # 0
        /\ tokens[tokens[local[p].tok].parent].replayed

\* C4: refresh_session with a refresh token of a session whose durable row is
\* revoked or expired never returns a new pair and never writes the session's
\* cache entry.
C4_TerminatedNotRenewed ==
    \A p \in Procs :
        (Done(p, "refresh") /\ local[p].st0 \in {"revoked", "expired"}) =>
            /\ local[p].res # "ok"
            /\ local[p].sid \in DOMAIN session_cache =>
                   session_cache[local[p].sid].value.refresh_jti # local[p].rjti

\* C5: a durable row whose status is revoked or expired keeps that status.
C5_StatusMonotone ==
    [][\A s \in DOMAIN rows :
          rows[s].status # "active" =>
              s \in DOMAIN rows' /\ rows'[s].status = rows[s].status]_vars

\* revoke_session has answered true for a row the cleanup had marked expired.
C5_Witness ==
    \E p \in Procs :
        /\ Done(p, "revoke") /\ local[p].res = "true"
        /\ local[p].st0 = "expired"
        /\ rows[local[p].sid].status = "expired"

\* C6: revoke_session answers true for an active session and false for a
\* session an earlier call had revoked.
C6_RevokeTrueThenFalse ==
    \A p \in Procs :
        Done(p, "revoke") =>
            /\ local[p].st0 = "active" => local[p].res = "true"
            /\ local[p].st0 = "revoked" => local[p].res = "false"

\* C7: once revoke_session(S) has answered true, S's access token is refused
\* by verify_access_token with TokenRevoked and S's refresh token by
\* refresh_session with TokenRevoked (for as long as they have not expired).
C7_RevokedPairRefusedAsRevoked ==
    \A p \in Procs :
        (Done(p, "revoke") /\ local[p].res = "true") =>
            LET a == rows[local[p].sid].access_token_jti
                r == rows[local[p].sid].refresh_token_jti
            IN /\ Expired(a) \/ VerifyOutcome(a) = "TokenRevoked"
               /\ Expired(r) \/ RefreshOutcome(r) = "TokenRevoked"

C9_ExcludedSessionUntouched ==
    [][\A p \in Procs : \A B \in DOMAIN rows :
          ( /\ local'[p].op = "revoke_all"
            /\ pc'[p] # pc[p]
            /\ local'[p].excl = B )
          => LET a == rows[B].access_token_jti
                 r == rows[B].refresh_token_jti
             IN /\ rows'[B] = rows[B]
                /\ (B \in DOMAIN session_cache') = (B \in DOMAIN session_cache)
                /\ B \in DOMAIN session_cache => session_cache'[B] = session_cache[B]
                /\ (a \in DOMAIN blacklist') = (a \in DOMAIN blacklist)
                /\ (r \in DOMAIN blacklist') = (r \in DOMAIN blacklist)
                /\ VerifyOutcome(a)' = VerifyOutcome(a)]_vars

\* A bulk revocation that excluded the user's session B has revoked another
\* session, and B's access token is still accepted.
C9_Witness ==
    \E p \in Procs :
        /\ Done(p, "revoke_all") /\ local[p].n >= 1
        /\ local[p].excl \in DOMAIN rows
        /\ rows[local[p].excl].user_id = local[p].user
        /\ rows[local[p].excl].status = "active"
        /\ rows[local[p].excl].access_token_jti \notin DOMAIN blacklist
        /\ rows[local[p].excl].refresh_token_jti \notin DOMAIN blacklist
        /\ VerifyOutcome(rows[local[p].excl].access_token_jti) = "ok"

\* C10: revoke_all_user_sessions(user, reason, exclude_session=B) returns the
\* number of the user's sessions that were active when it was called, B not
\* counted, leaves each of them revoked, and leaves B active.
C10_RevokeAllButExcluded ==
    [][\A p \in Procs :
          (pc[p] = "a_db" /\ pc'[p] = "done") =>
              /\ local'[p].n = Cardinality(local[p].seen)
              /\ \A s \in local[p].seen : rows'[s].status = "revoked"
              /\ local[p].st0 = "active" => rows'[local[p].excl].status = "active"]_vars

\* The user had the active sessions A, B and C; the call excluded B and
\* returned 2.
C10_Witness ==
    \E p \in Procs :
        /\ Done(p, "revoke_all") /\ local[p].n = 2
        /\ Cardinality(local[p].seen) = 2
        /\ local[p].st0 = "active"
        /\ rows[local[p].excl].user_id = local[p].user
        /\ rows[local[p].excl].status = "active"
        /\ \A s \in local[p].seen : rows[s].status = "revoked"

C12_CreateThenVerify ==
    \A p \in Procs :
        (Done(p, "verify") /\ local[p].after.sid # 0) =>
            /\ local[p].res = "ok"
            /\ tokens[local[p].tok].session_id = local[p].after.sid
            /\ tokens[local[p].tok].user_id = local[p].after.user

\* Such a verify_access_token has returned the claims.
C12_Witness ==
    \E p \in Procs :
        /\ Done(p, "verify") /\ local[p].after.sid # 0
        /\ local[p].res = "ok"

\* C13: once create_session has returned its result, the session's row is in
\* the store, active, with the user given and the jtis of the returned tokens.
C13_ReturnedSessionHasRow ==
    \A p \in Procs :
        (Done(p, "create") /\ local[p].res = "ok") =>
            /\ local[p].sid \in DOMAIN rows
            /\ rows[local[p].sid].status = "active"
            /\ rows[local[p].sid].user_id = local[p].user
            /\ rows[local[p].sid].access_token_jti = local[p].ajti
            /\ rows[local[p].sid].refresh_token_jti = local[p].rjti
            /\ tokens[local[p].ajti].session_id = local[p].sid
            /\ tokens[local[p].rjti].session_id = local[p].sid

\* C14: no token whose jti had a deny-list entry when it was presented is
\* accepted by verify_access_token or exchanged by refresh_session.
C14_DenyListAuthoritative ==
    \A p \in Procs :
        ( /\ Done(p, "verify") \/ Done(p, "refresh")
          /\ local[p].listed )
        => local[p].res # "ok"

\* C15: whenever refresh_session has returned a new pair, the jti of the token
\* presented has its deny-list entry.
C15_RetiredBeforeIssued ==
    \A p \in Procs :
        (Done(p, "refresh") /\ local[p].res = "ok") =>
            local[p].tok \in DOMAIN blacklist

\* C16: of the tokens of one session, at most one access token is accepted by
\* verify_access_token and at most one refresh token by refresh_session.
C16_OneLivePair ==
    \A s \in DOMAIN rows :
        /\ Cardinality({j \in DOMAIN tokens :
               /\ tokens[j].session_id = s /\ tokens[j].type = "access"
               /\ VerifyOutcome(j) = "ok"}) <= 1
        /\ Cardinality({j \in DOMAIN tokens :
               /\ tokens[j].session_id = s /\ tokens[j].type = "refresh"
               /\ RefreshOutcome(j) = "ok"}) <= 1

\* C17: create_session and refresh_session return no result when the insert
\* or update of the session's row has failed.
C17_DurableFailureSurfaced ==
    \A p \in Procs :
        ( /\ Done(p, "create") \/ Done(p, "refresh")
          /\ local[p].outage = "db_write" )
        => local[p].res # "ok"

\* C18: a verify_access_token or refresh_session during which a cache read
\* failed does not fail with SessionExpired and leaves the session's row as
\* it was.
C18_OutageNotSessionExpired ==
    \A p \in Procs :
        ( /\ Done(p, "verify") \/ Done(p, "refresh")
          /\ local[p].outage = "cache_read" )
        => /\ local[p].res # "SessionExpired"
           /\ local[p].op = "refresh" => StatusOf(local[p].sid) = local[p].st0

\* C20: a token whose signature does not verify is refused with TokenInvalid,
\* a signed token whose exp has passed with TokenExpired, and never the other
\* way round.
C20_InvalidIsNotExpired ==
    \A p \in Procs :
        (Done(p, "verify") \/ Done(p, "refresh")) =>
            /\ local[p].forged => local[p].res = "TokenInvalid"
            /\ (~local[p].forged /\ local[p].lapsed) => local[p].res = "TokenExpired"
            /\ local[p].res = "TokenExpired" => ~local[p].forged

\* C19: authenticate_user returns the user whose stored name is the typed
\* name lower-cased and trimmed when that user is active and the password
\* verifies against the stored digest; it returns None otherwise, and None
\* when the lookup itself fails; it has no other outcome.
C19_AuthenticateOutcome ==
    [][\A p \in Procs :
          (pc[p] = "u_lookup" /\ pc'[p] = "done") =>
              LET match == {i \in 1 .. Len(users) :
                               /\ users[i].username = lower_strip(local[p].username)
                               /\ users[i].is_active
                               /\ users[i].password_hash
                                      = hash_password(local[p].password)}
                  r == local'[p]
              IN /\ r.res \in {"user", "None"}
                 /\ r.outage = "none" => (r.res = "user") = (match # {})
                 /\ r.outage # "none" => r.res = "None"
                 /\ r.res = "user" => r.user \in match
                 /\ r.res = "None" => r.user = 0]_vars

\* A login typed as "Alice " has returned the user stored as "alice", after
\* another user was deactivated.
C19_Witness ==
    \E p \in Procs :
        /\ Done(p, "authenticate") /\ local[p].res = "user"
        /\ local[p].username = "Alice "
        /\ users[local[p].user].username = "alice"
        /\ \E i \in 1 .. Len(users) : ~users[i].is_active


C22_BulkRevocationConsistent ==
    [][\A p \in Procs :
        (pc[p] = "a_db" /\ pc'[p] = "done") =>
            /\ \A s \in DOMAIN rows :
                  (rows[s].status = "active" /\ rows'[s].status = "revoked") =>
                      /\ rows[s].access_token_jti \in DOMAIN blacklist
                      /\ rows[s].refresh_token_jti \in DOMAIN blacklist
                      /\ s \notin DOMAIN session_cache
            /\ local'[p].n = local'[p].revoked_count]_vars

\* C23: every deny-list entry stays at least as long as the token it blocks:
\* the entry of a jti runs out no earlier than the exp of the token that
\* carries the jti, whichever handler wrote it.
C23_DenyListOutlivesToken ==
    \A j \in DOMAIN blacklist \cap DOMAIN tokens :
        blacklist[j].exp >= tokens[j].exp

\* A refresh token was exchanged some time after it was issued, and time
\* has passed since.
C23_Witness ==
    \E j \in DOMAIN blacklist \cap DOMAIN tokens :
        /\ blacklist[j].value = "refreshed"
        /\ tokens[j].type = "refresh" /\ tokens[j].exp > now
        /\ blacklist[j].exp > tokens[j].exp
        /\ now > blacklist[j].exp - RefreshTTL

\* C24: the two token types are not interchangeable: verify_access_token
\* accepts only tokens tagged access and refresh_session issues a new pair
\* only for tokens tagged refresh, whatever else holds of the token.
C24_TypesNotInterchangeable ==
    \A p \in Procs :
        /\ (Done(p, "verify") /\ local[p].res = "ok") =>
               tokens[local[p].tok].type = "access"
        /\ (Done(p, "refresh") /\ local[p].res = "ok") =>
               tokens[local[p].tok].type = "refresh"

\* A refresh token, unexpired and not deny-listed, of a session that is in
\* the cache, was presented to verify_access_token and refused.
C24_Witness ==
    \E p \in Procs :
        /\ Done(p, "verify")
        /\ tokens[local[p].tok].type = "refresh"
        /\ ~local[p].lapsed /\ ~local[p].listed /\ local[p].resident
        /\ local[p].res = "TokenExpired"

\* C25: verify_access_token, called on its own with a server-issued access
\* token that is unexpired and not on the deny-list while the cache holds no
\* entry for the token's session, answers SessionExpired.
C25_NoCacheEntryIsSessionExpired ==
    \A p \in Procs :
        ( /\ Done(p, "verify") /\ ~local[p].forged
          /\ tokens[local[p].tok].type = "access"
          /\ ~local[p].lapsed /\ ~local[p].listed /\ ~local[p].resident ) =>
            local[p].res = "SessionExpired"

C25_Witness ==
    \E p \in Procs :
        /\ Done(p, "verify") /\ ~local[p].forged
        /\ tokens[local[p].tok].type = "access"
        /\ ~local[p].lapsed /\ ~local[p].listed /\ ~local[p].resident
        /\ local[p].res = "SessionExpired"
        /\ StatusOf(local[p].sid) = "revoked"

C27_VerifyRefreshesActivity ==
    [][\A p \in Procs :
        (pc[p] = "v_db" /\ pc'[p] = "done" /\ local'[p].res = "ok") =>
            LET u == local[p].user
                s == local[p].sid IN
            /\ u \in DOMAIN user_activity'
            /\ user_activity'[u] =
                   [value |-> now', exp |-> now' + INACTIVITY_TIMEOUT_SECONDS]
            /\ s \in DOMAIN session_cache'
            /\ session_cache'[s].value.last_activity = now'
            /\ session_cache'[s].exp = now' + AccessTTL
            /\ \A j \in DOMAIN tokens' :
                  tokens'[j].user_id = u => RefreshOutcome(j)' # "SessionExpired"
      ]_vars

\* A verification some time after the session's last write: the marker and
\* the cache entry carried an older time and an earlier end before it.
C27_Witness ==
    \E p \in Procs :
        /\ Done(p, "verify") /\ local[p].res = "ok"
        /\ tokens[local[p].tok].exp < now + AccessTTL
        /\ user_activity[local[p].user].value = now
        /\ session_cache[local[p].sid].value.last_activity = now
        /\ session_cache[local[p].sid].exp = now + AccessTTL

\* C28: revoke_session on a session id that has no row in the store returns
\* false at once and changes nothing: no deny-list entry, no cache entry, no
\* activity marker and no row is written or removed.
C28_RevokeMissingIsNoOp ==
    [][\A p \in Procs :
        ( /\ budget' # budget
          /\ local'[p].op = "revoke" /\ local'[p] # local[p]
          /\ local'[p].sid \notin DOMAIN rows ) =>
            /\ pc'[p] = "done" /\ local'[p].res = "false"
            /\ UNCHANGED <<rows, session_cache, user_activity, blacklist, tokens>>
      ]_vars

\* The id was never issued while sessions, their cache entries and markers
\* exist.
C28_Witness ==
    \E p \in Procs :
        /\ Done(p, "revoke") /\ local[p].res = "false"
        /\ local[p].sid \notin DOMAIN rows
        /\ DOMAIN rows # {} /\ DOMAIN session_cache # {} /\ DOMAIN user_activity # {}

\* C29: a refresh_session that succeeds, called on its own, issues both new
\* tokens under the session id and user id of the presented refresh token,
\* puts the two new jtis in the session's cache entry and in its row, and
\* leaves the row's user, status, revoked_reason and created_at, and every
\* other row, as they were.
C29_RotationWithinSession ==
    [][\A p \in Procs :
        (pc[p] = "r_update" /\ pc'[p] = "done" /\ local'[p].res = "ok") =>
            LET s == local[p].sid
                old == tokens[local[p].tok]
                a == local'[p].ajti
                r == local'[p].rjti IN
            /\ s = old.session_id
            /\ {a, r} \cap DOMAIN tokens = {} /\ a # r
            /\ tokens'[a].type = "access" /\ tokens'[r].type = "refresh"
            /\ \A j \in {a, r} : /\ tokens'[j].session_id = old.session_id
                                 /\ tokens'[j].user_id = old.user_id
            /\ s \in DOMAIN session_cache'
            /\ session_cache'[s].value.access_jti = a
            /\ session_cache'[s].value.refresh_jti = r
            /\ session_cache'[s].value.user_id = old.user_id
            /\ s \in DOMAIN rows
            /\ rows'[s] = [rows[s] EXCEPT !.access_token_jti = a,
                                          !.refresh_token_jti = r,
                                          !.last_activity = now]
            /\ \A x \in DOMAIN rows \ {s} : rows'[x] = rows[x]
      ]_vars

\* A rotation some time after the session was created.
C29_Witness ==
    \E p \in Procs :
        /\ Done(p, "refresh") /\ local[p].res = "ok"
        /\ rows[local[p].sid].created_at < now
        /\ rows[local[p].sid].last_activity = now
        /\ rows[local[p].sid].refresh_token_jti = local[p].rjti
        /\ rows[local[p].sid].access_token_jti = local[p].ajti
        /\ session_cache[local[p].sid].value.refresh_jti = local[p].rjti

\* C30: a run of the scheduled cleanup turns to expired exactly the rows
\* that are active and whose last_activity lies more than the retention
\* window back, reports their number, and leaves every other row (revoked,
\* already expired, or active with later activity) as it was.
C30_CleanupExactlyStaleActive ==
    [][\A p \in Procs :
        ( /\ budget' # budget /\ local'[p] # local[p]
          /\ pc'[p] = "done" /\ local'[p].op = "cleanup" ) =>
            LET stale == {s \in DOMAIN rows :
                            /\ rows[s].status = "active"
                            /\ now - rows[s].last_activity > RetentionSeconds} IN
            /\ DOMAIN rows' = DOMAIN rows
            /\ \A s \in stale : rows'[s] = [rows[s] EXCEPT
                                     !.status = "expired",
                                     !.revoked_reason = "cleanup_job"]
            /\ \A s \in DOMAIN rows \ stale : rows'[s] = rows[s]
            /\ local'[p].n = Cardinality(stale)
      ]_vars

\* One row was stale and is expired, one was last active exactly the
\* retention window ago and stays active.
C30_Witness ==
    \E p \in Procs :
        /\ Done(p, "cleanup") /\ local[p].n = 1
        /\ \E s \in DOMAIN rows : /\ rows[s].status = "expired"
                                  /\ rows[s].revoked_reason = "cleanup_job"
        /\ \E s \in DOMAIN rows : /\ rows[s].status = "active"
                                  /\ now - rows[s].last_activity = RetentionSeconds

\* C31: token ids are unique.  In every state no jti in a session's row is a
\* jti in another session's row and a row's access jti is not its refresh
\* jti; and the two jtis a rotation hands out are different from each other
\* and from every jti handed out, stored or drawn before.
RowJtis(s) == {rows[s].access_token_jti, rows[s].refresh_token_jti}

C32_NoDigestReturned ==
    \A p \in Procs :
        (Done(p, "authenticate") /\ local[p].res = "user") =>
            /\ "password_hash" \notin DOMAIN local[p].ret
            /\ local[p].ret.id = local[p].user
            /\ local[p].ret.username = lower_strip(local[p].username)
            /\ local[p].ret.is_active

C32_Witness ==
    \E p \in Procs :
        /\ Done(p, "authenticate") /\ local[p].res = "user"
        /\ users[local[p].user].password_hash = hash_password(local[p].password)
        /\ DOMAIN local[p].ret = {"id", "username", "is_active"}

\* C33: when revoke_session has revoked session A of user U whose activity
\* marker was present, a refresh_session that follows at once with the
\* current refresh token of another active session B of U succeeds and
\* leaves B's row active.
C33_SiblingStaysRenewable ==
    \A p \in Procs :
        (Done(p, "refresh") /\ local[p].sibling) =>
            /\ local[p].res = "ok"
            /\ rows[local[p].sid].status = "active"

\* C34: when revoke_all_user_sessions(U, reason, exclude_session = B) has
\* returned and U's activity marker was present before, a refresh_session
\* that follows at once with B's current refresh token succeeds and leaves
\* B's row active.
C34_ExcludedStaysRenewable ==
    \A p \in Procs :
        (Done(p, "refresh") /\ local[p].spared) =>
            /\ local[p].res = "ok"
            /\ rows[local[p].sid].status = "active"

\* C35: a refresh_session that is refused because the token is on the
\* deny-list (TokenRevoked) or carries the wrong type tag changes nothing:
\* cache entries, activity markers, deny-list and rows are as before, and
\* what verify_access_token and refresh_session answer for every issued
\* token is as before.
C35_RejectedRenewalChangesNothing ==
    [][\A p \in Procs :
        ( /\ budget' # budget /\ local'[p] # local[p]
          /\ pc'[p] = "done" /\ local'[p].op = "refresh" /\ ~local'[p].forged
          /\ \/ local'[p].res = "TokenRevoked"
             \/ tokens[local'[p].tok].type # "refresh" ) =>
            /\ local'[p].res \in {"TokenRevoked", "TokenExpired"}
            /\ UNCHANGED <<rows, session_cache, user_activity, blacklist>>
            /\ DOMAIN tokens' = DOMAIN tokens
            /\ \A j \in DOMAIN tokens :
                  /\ VerifyOutcome(j)' = VerifyOutcome(j)
                  /\ RefreshOutcome(j)' = RefreshOutcome(j)
      ]_vars

\* A rotated refresh token was presented again and refused as revoked while
\* the session's current pair is accepted.
C35_Witness ==
    \E p \in Procs :
        /\ Done(p, "refresh") /\ local[p].res = "TokenRevoked" /\ local[p].replay
        /\ local[p].sid \in DOMAIN session_cache
        /\ \E a, r \in DOMAIN tokens :
              /\ rows[local[p].sid].access_token_jti = a
              /\ rows[local[p].sid].refresh_token_jti = r
              /\ VerifyOutcome(a) = "ok" /\ RefreshOutcome(r) = "ok"

\* C36: when a revoke_session(S) evicted S's cache entry while a
\* verify_access_token for S had passed its session-existence check, then
\* once both calls have completed no cache entry exists for S.
C36_VerifyDoesNotResurrect ==
    \A p, q \in Procs :
        ( /\ Done(p, "verify") /\ local[p].evicted
          /\ Done(q, "revoke") /\ local[q].sid = local[p].sid ) =>
            local[p].sid \notin DOMAIN session_cache

\* C37: cache and store agree on liveness.  Whenever no call is in
\* progress, every session that has a cache entry has a row with status
\* active, and the entry's access_jti and refresh_jti are the row's
\* access_token_jti and refresh_token_jti.
C37_CacheAgreesWithStore ==
    (\A p \in Procs : ~InFlight(p)) =>
        \A s \in DOMAIN session_cache :
            /\ s \in DOMAIN rows
            /\ rows[s].status = "active"
            /\ session_cache[s].value.access_jti = rows[s].access_token_jti
            /\ session_cache[s].value.refresh_jti = rows[s].refresh_token_jti
====
